---- MODULE Spec2Model ----
(***************************************************************************)
(* Model of the statistical core of sample_data_equity_analysis:           *)
(*   analysis.py        run_analysis, _run_detailed_analysis, _exec_*      *)
(*   analysis_helper.py run_anova, run_t_test, _calc_cohens_d              *)
(*   utilities.py       num_to_string                                      *)
(*                                                                         *)
(* Numbers.  A Python/numpy float is a record [k, v]: k = "num" with v    *)
(* the value in units of 1/10000, or k = "nan".  Comparisons follow IEEE  *)
(* 754: every ordered comparison and == is false when an operand is NaN.  *)
(* An effect size d is kept exactly as d^2 = num/den (see CohensD).       *)
(*                                                                         *)
(* Data.  The column of one demographic is summarised per label by the    *)
(* number n of rows whose outcome is not missing, and the mean and the    *)
(* variance of those outcomes.  The results of the scipy tests are drawn  *)
(* from the outcomes scipy can produce for such samples.                   *)
(***************************************************************************)
EXTENDS Integers, Sequences, FiniteSets, TLC

VARIABLES
    pc,         \* position in run_analysis: "idle", "detail", "call", "done", ...
    next_call,  \* index of the next call of _run_detailed_analysis
    report,     \* what the most recent call displayed and returned
    earlier_condition,  \* history: a call before the most recent one of this
                        \* request could not run or met a zero pooled deviation
    effect,     \* arguments and result of a direct call of _calc_cohens_d
    adapter,    \* notebook_ui.adapter: 0 is None, k the adapter created by
                \* the k-th Prepare click
    prepares,   \* history: for each Prepare click so far, whether it created
                \* an adapter
    click       \* what the most recent button click did

vars == <<pc, next_call, report, earlier_condition, effect,
          adapter, prepares, click>>

\* the state of the notebook's controls and global
ui_vars == <<adapter, prepares, click>>

---------------------------------------------------------------------------
\* Bounds of the model

\* number of distinct labels a demographic column can hold
MaxLabels == 3

\* largest sample handed to _calc_cohens_d when it is called directly
MaxSampleSize == 3

---------------------------------------------------------------------------
\* Floats

Num(v) == [k |-> "num", v |-> v]

NaN == [k |-> "nan", v |-> 0]

IsNaN(x) == x.k = "nan"

\* x > y on floats
FloatGT(x, y) == x.k = "num" /\ y.k = "num" /\ x.v > y.v

\* x == y on floats
FloatEQ(x, y) == x.k = "num" /\ y.k = "num" /\ x.v = y.v

\* x <= y on floats
FloatLE(x, y) == x.k = "num" /\ y.k = "num" /\ x.v <= y.v

---------------------------------------------------------------------------
\* Program constants

MAGIC_NUMBER == 30

\* the significance level 0.05, in units of 1/10000
Alpha == 500

---------------------------------------------------------------------------
\* Input data

Labels == 1 .. MaxLabels

\* non-missing outcome counts: none, at the threshold, above it
Counts == {0, MAGIC_NUMBER, MAGIC_NUMBER + 1}

\* mean and variance of the outcomes of a label: two constant samples of
\* different value, and a sample that varies
Shapes ==
    {[mean |-> 1, var |-> 0], [mean |-> 2, var |-> 0], [mean |-> 1, var |-> 1]}

\* per-label summary of a column; a label without any non-missing outcome
\* has no statistics
GroupStats ==
    {[n |-> 0, mean |-> 1, var |-> 0]}
    \cup {[n |-> c, mean |-> sh.mean, var |-> sh.var] :
            c \in Counts \ {0}, sh \in Shapes}

Columns == [Labels -> GroupStats]

---------------------------------------------------------------------------
\* Helpers on sequences

RECURSIVE SortedSeq(_)
\* the elements of a finite set of integers in ascending order
SortedSeq(S) ==
    IF S = {} THEN <<>>
    ELSE LET m == CHOOSE x \in S : \A y \in S : x <= y
         IN <<m>> \o SortedSeq(S \ {m})

Range(s) == {s[i] : i \in DOMAIN s}

---------------------------------------------------------------------------
\* pandas: students[not_null].groupby(by=[demographic])

\* the group keys, sorted as groupby sorts them: the labels that own at
\* least one row with a non-missing outcome
GroupKeys(col) == SortedSeq({l \in Labels : col[l].n > 0})

\* the StudentKey count of every label (0: the label is in no group)
GroupCount(col) == [l \in Labels |-> col[l].n]

\* descriptive statistics of a sample, integers in the units of the data;
\* a non-constant sample spreads one unit around its mean
SampleStd(g) == g.var

SampleMin(g) == IF g.var = 0 THEN g.mean ELSE g.mean - 1

SampleMax(g) == IF g.var = 0 THEN g.mean ELSE g.mean + 1

---------------------------------------------------------------------------
\* Size filter

IsIncludedGE(count) == count >= MAGIC_NUMBER

\* count > MAGIC_NUMBER
IsIncluded(count) == count > MAGIC_NUMBER

\* count <= MAGIC_NUMBER
IsExcluded(count) == count <= MAGIC_NUMBER

\* labels of the groups kept for the test, in group order
Included(col) ==
    SelectSeq(GroupKeys(col), LAMBDA l : IsIncluded(col[l].n))

\* labels of the groups left out of the test
Excluded(col) ==
    {l \in Range(GroupKeys(col)) : IsExcluded(col[l].n)}

CannotRunLT1(k) == k < 1

\* fewer than two populations are large enough
CannotRun(k) == k < 2

---------------------------------------------------------------------------
\* scipy.stats: the p-values the tests can return for the given samples

AllConst(col, ls) == \A i \in DOMAIN ls : col[ls[i]].var = 0

AllSameMean(col, ls) ==
    \A i, j \in DOMAIN ls : col[ls[i]].mean = col[ls[j]].mean

\* p-values of a test on samples that are not degenerate: below, at and
\* above the significance level
PValues == {Num(Alpha - 1), Num(Alpha), Num(Alpha + 1)}

POne == Num(10000)

\* f_oneway: nan when every value is the same constant, 0 when every
\* group is constant, 1 when the group means agree
f_oneway(col, ls) ==
    IF AllConst(col, ls) /\ AllSameMean(col, ls) THEN {NaN}
    ELSE IF AllConst(col, ls) THEN {Num(0)}
    ELSE IF AllSameMean(col, ls) THEN {POne}
    ELSE PValues

\* kruskal: undefined when all numbers are identical
kruskal(col, ls) ==
    IF AllConst(col, ls) /\ AllSameMean(col, ls) THEN {NaN}
    ELSE IF AllSameMean(col, ls) THEN {POne}
    ELSE PValues

\* ttest_ind(equal_var=False): t = (m1 - m2) / sqrt(v1/n1 + v2/n2)
ttest_ind(col, ls) ==
    IF AllConst(col, ls) /\ AllSameMean(col, ls) THEN {NaN}
    ELSE IF AllConst(col, ls) THEN {Num(0)}
    ELSE IF AllSameMean(col, ls) THEN {POne}
    ELSE PValues

\* p-values of a pair that Tukey's test tells apart: 0.0001 and 0.0004
TukeyPValues == {Num(1), Num(4)}

\* tukey_hsd(...).pvalue[i][j]: the mean difference over the pooled
\* within-group error of all the samples
tukey_pair(col, ls, i, j) ==
    IF AllConst(col, ls)
    THEN IF col[ls[i]].mean = col[ls[j]].mean THEN {NaN} ELSE {Num(0)}
    ELSE IF col[ls[i]].mean = col[ls[j]].mean THEN {POne}
    ELSE TukeyPValues

---------------------------------------------------------------------------
\* utilities.num_to_string: "{:,}".format(round(number, 3)), as the sequence
\* of the character codes of the text (values below 1,000)

RECURSIVE Digits(_)
\* decimal digits of a natural number
Digits(n) ==
    IF n < 10 THEN <<48 + n>> ELSE Digits(n \div 10) \o <<48 + (n % 10)>>

\* round(number, 3): ten-thousandths to thousandths, ties to even
Round3(v) ==
    LET q == v \div 10
        r == v % 10
    IN  IF r > 5 \/ (r = 5 /\ q % 2 = 1) THEN q + 1 ELSE q

\* the digits after the point, as repr prints them: no trailing zeros, at
\* least one digit
FracDigits(f) ==
    IF f % 1000 = 0 THEN <<48>>
    ELSE IF f % 100 = 0 THEN <<48 + (f \div 100)>>
    ELSE IF f % 10 = 0 THEN <<48 + (f \div 100), 48 + ((f \div 10) % 10)>>
    ELSE <<48 + (f \div 100), 48 + ((f \div 10) % 10), 48 + (f % 10)>>

num_to_string(x) ==
    IF IsNaN(x) THEN <<110, 97, 110>>
    ELSE LET r == Round3(x.v)
         IN  Digits(r \div 1000) \o <<46>> \o FracDigits(r % 1000)

\* a float holding the integer i
FromInt(i) == Num(i * 10000)

RECURSIVE StrLess(_, _)
\* a < b on Python strings
StrLess(a, b) ==
    IF b = <<>> THEN FALSE
    ELSE IF a = <<>> THEN TRUE
    ELSE IF a[1] # b[1] THEN a[1] < b[1]
    ELSE StrLess(Tail(a), Tail(b))

---------------------------------------------------------------------------
\* _calc_cohens_d

\* (n1 - 1) * s1**2 + (n2 - 1) * s2**2
PooledSS(g1, g2) == (g1.n - 1) * g1.var + (g2.n - 1) * g2.var

AbsDiff(a, b) == IF a >= b THEN a - b ELSE b - a

\* d = abs(m1 - m2) / sqrt(PooledSS / (n1 + n2 - 2)), kept as d^2 = num/den.
\* With s = 0.0 the numpy division returns inf, or nan for 0/0.
CohensD(g1, g2) ==
    LET diff == AbsDiff(g1.mean, g2.mean)
        ss   == PooledSS(g1, g2)
    IN  IF ss = 0
        THEN [k |-> IF diff = 0 THEN "nan" ELSE "inf", num |-> 0, den |-> 1]
        ELSE [k |-> "num", num |-> diff * diff * (g1.n + g2.n - 2), den |-> ss]

\* d > t/100
DGT(d, t) ==
    \/ d.k = "inf"
    \/ d.k = "num" /\ d.num * 10000 > t * t * d.den

\* d <= t/100
DLE(d, t) == d.k = "num" /\ d.num * 10000 <= t * t * d.den

\* d < t/100
DLT(d, t) == d.k = "num" /\ d.num * 10000 < t * t * d.den

EffectSizeStrictBounds(d) ==
    IF DGT(d, 1) /\ DLT(d, 20) THEN "Small"
    ELSE IF DLT(d, 50) THEN "Medium"
    ELSE IF DLT(d, 80) THEN "Large"
    ELSE IF DLT(d, 120) THEN "Very large"
    ELSE "Huge"

\* the if / elif chain that names the effect size; its final else overwrites
\* the initial "Very small" on every path
EffectSize(d) ==
    IF DGT(d, 1) /\ DLE(d, 20) THEN "Small"
    ELSE IF DLE(d, 50) THEN "Medium"
    ELSE IF DLE(d, 80) THEN "Large"
    ELSE IF DLE(d, 120) THEN "Very large"
    ELSE "Huge"

\* the returned tuple; raised is whether an exception left the function
_calc_cohens_d(g1, g2) ==
    LET d == CohensD(g1, g2)
    IN  [raised |-> FALSE, d |-> d, effect_size |-> EffectSize(d)]

---------------------------------------------------------------------------
\* What one call of run_anova / run_t_test displays and returns

NoP == [k |-> "none", v |-> 0]

NoReport ==
    [engine |-> "none", demographic |-> "none",
     group_count |-> [l \in Labels |-> 0],
     included |-> <<>>, excluded_logged |-> FALSE, excluded |-> {},
     samples |-> <<>>, calls |-> {}, f_p |-> NoP, p_value |-> NoP,
     verdict |-> "none",
     rows |-> <<>>, cohens_d |-> <<>>, describe |-> <<>>, stats |-> <<>>,
     log |-> <<>>,
     ret |-> FALSE, box_plot |-> FALSE]

NeedsFallbackIsNaN(p) == IsNaN(p)

\* p_value == NaN
NeedsFallback(p) == FloatEQ(p, NaN)

UpheldGE(p) == FloatLE(Num(Alpha), p)

\* p_value > 0.05
Upheld(p) == FloatGT(p, Num(Alpha))

SkipPairGT(i, j) == i > j

\* i >= j: continue
SkipPair(i, j) == i >= j

\* the (i, j) the two nested loops over range(len(labels)) do not skip,
\* in the order the loops visit them
PairLoop(n) ==
    SelectSeq([k \in 1 .. n * n |-> <<((k - 1) \div n) + 1, ((k - 1) % n) + 1>>],
              LAMBDA pr : ~SkipPair(pr[1], pr[2]))

RECURSIVE TukeyPs(_, _, _)
\* the p-values tukey_hsd can give to the pairs, one sequence per outcome
TukeyPs(col, ls, pairs) ==
    IF pairs = <<>> THEN {<<>>}
    ELSE {<<p>> \o rest :
            p \in tukey_pair(col, ls, pairs[1][1], pairs[1][2]),
            rest \in TukeyPs(col, ls, Tail(pairs))}

\* rows.append([labels[i], labels[j], stat, p, low, high, effect_size])
TukeyRows(col, ls, pairs, ps) ==
    [k \in DOMAIN pairs |->
        [label1 |-> ls[pairs[k][1]],
         label2 |-> ls[pairs[k][2]],
         pvalue |-> ps[k],
         p      |-> num_to_string(ps[k]),
         effect_size |-> _calc_cohens_d(col[ls[pairs[k][1]]], col[ls[pairs[k][2]]])]]

RECURSIVE InsertRow(_, _)
\* r placed after every row whose "p Value" is not greater than r's
InsertRow(sorted, r) ==
    IF sorted = <<>> THEN <<r>>
    ELSE IF StrLess(r.p, sorted[Len(sorted)].p)
         THEN InsertRow(SubSeq(sorted, 1, Len(sorted) - 1), r)
              \o <<sorted[Len(sorted)]>>
         ELSE sorted \o <<r>>

RECURSIVE SortByP(_)
\* tukey_output.sort_values(by=["p Value"]): the column holds strings
SortByP(rows) ==
    IF rows = <<>> THEN <<>>
    ELSE InsertRow(SortByP(SubSeq(rows, 1, Len(rows) - 1)), rows[Len(rows)])

---------------------------------------------------------------------------
\* run_anova: the reports the call can end with on column col

AnovaCannotRun(col) ==
    [NoReport EXCEPT
        !.engine = "run_anova",
        !.group_count = GroupCount(col),
        !.included = Included(col),
        !.log = <<"cannot_run">>,
        !.ret = FALSE]

\* lines 62-80: the excluded warning and f_oneway on the included samples
AnovaTested(col) ==
    [NoReport EXCEPT
        !.engine = "run_anova",
        !.group_count = GroupCount(col),
        !.included = Included(col),
        !.excluded_logged = (Excluded(col) # {}),
        !.excluded = Excluded(col),
        !.samples = Included(col),
        !.calls = {"f_oneway"},
        !.log = IF Excluded(col) # {} THEN <<"excluded">> ELSE <<>>,
        !.ret = TRUE]

\* lines 82-87: the Kruskal-Wallis fallback
AnovaFallback(r, col, p0) ==
    IF NeedsFallback(p0)
    THEN {[r EXCEPT !.calls = @ \cup {"kruskal"},
                    !.log = @ \o <<"fallback">>,
                    !.f_p = p0,
                    !.p_value = p1] : p1 \in kruskal(col, r.samples)}
    ELSE {[r EXCEPT !.f_p = p0, !.p_value = p0]}

AnovaVerdictAlwaysPostHoc(r, col) ==
    LET pairs == PairLoop(Len(r.samples))
        word  == IF Upheld(r.p_value) THEN "upheld" ELSE "rejected"
    IN  {[r EXCEPT
            !.verdict = word,
            !.calls = @ \cup {"tukey_hsd"}
                        \cup (IF pairs = <<>> THEN {} ELSE {"_calc_cohens_d"}),
            !.rows = SortByP(TukeyRows(col, r.samples, pairs, ps)),
            !.log = @ \o <<"hypothesis", word, "tukey_table">>]
         : ps \in TukeyPs(col, r.samples, pairs)}

\* lines 89-133: the verdict and, on rejection, the post-hoc table
AnovaVerdict(r, col) ==
    IF Upheld(r.p_value)
    THEN {[r EXCEPT !.verdict = "upheld",
                    !.log = @ \o <<"hypothesis", "upheld">>]}
    ELSE LET pairs == PairLoop(Len(r.samples))
         IN  {[r EXCEPT
                 !.verdict = "rejected",
                 !.calls = @ \cup {"tukey_hsd"}
                             \cup (IF pairs = <<>> THEN {} ELSE {"_calc_cohens_d"}),
                 !.rows = SortByP(TukeyRows(col, r.samples, pairs, ps)),
                 !.log = @ \o <<"hypothesis", "rejected", "tukey_table">>]
              : ps \in TukeyPs(col, r.samples, pairs)}

run_anova(col) ==
    IF CannotRun(Len(Included(col)))
    THEN {AnovaCannotRun(col)}
    ELSE UNION {
           UNION {AnovaVerdict(r, col) : r \in AnovaFallback(AnovaTested(col), col, p0)}
           : p0 \in f_oneway(col, Included(col))}

---------------------------------------------------------------------------
\* run_t_test: the reports the call can end with on column col

\* cat_0.describe(): the statistics of one compared sample
Describe(g) ==
    [count |-> g.n, mean |-> g.mean, std |-> SampleStd(g),
     min |-> SampleMin(g), max |-> SampleMax(g)]

\* one row of the descriptive-statistics table, in the order of the columns
\* "Label", "Count", "Mean", "StD", "Min", "Max": the fifth value is
\* cat_stats["max"] and the sixth cat_stats["min"]
StatsRow(label, g) ==
    [Label |-> label,
     Count |-> num_to_string(FromInt(Describe(g).count)),
     Mean  |-> num_to_string(FromInt(Describe(g).mean)),
     StD   |-> num_to_string(FromInt(Describe(g).std)),
     Min   |-> num_to_string(FromInt(Describe(g).max)),
     Max   |-> num_to_string(FromInt(Describe(g).min))]

\* lines 216-223: the message names the labels with count <= MAGIC_NUMBER
TTestCannotRun(col) ==
    [NoReport EXCEPT
        !.engine = "run_t_test",
        !.group_count = GroupCount(col),
        !.included = Included(col),
        !.excluded_logged = TRUE,
        !.excluded = Excluded(col),
        !.log = <<"cannot_run">>,
        !.ret = FALSE]

TTestRanLastTwo(col, p) ==
    LET categories == Included(col)
        n     == Len(categories)
        cat_0 == col[categories[n - 1]]
        cat_1 == col[categories[n]]
        base  ==
            [NoReport EXCEPT
                !.engine = "run_t_test",
                !.group_count = GroupCount(col),
                !.included = categories,
                !.samples = <<categories[n - 1], categories[n]>>,
                !.p_value = p,
                !.describe = <<Describe(cat_0), Describe(cat_1)>>,
                !.stats = <<StatsRow(categories[n - 1], cat_0),
                            StatsRow(categories[n], cat_1)>>,
                !.ret = TRUE]
    IN  IF Upheld(p)
        THEN [base EXCEPT
                !.verdict = "upheld",
                !.calls = {"ttest_ind", "describe"},
                !.log = <<"hypothesis", "upheld", "stats_table">>]
        ELSE [base EXCEPT
                !.verdict = "rejected",
                !.calls = {"ttest_ind", "_calc_cohens_d", "describe"},
                !.cohens_d = <<_calc_cohens_d(cat_0, cat_1)>>,
                !.log = <<"hypothesis", "rejected", "effect_size", "stats_table">>]

\* lines 225-270 for the p-value p of ttest_ind on categories[0], [1]
TTestRan(col, p) ==
    LET categories == Included(col)
        cat_0 == col[categories[1]]
        cat_1 == col[categories[2]]
        base  ==
            [NoReport EXCEPT
                !.engine = "run_t_test",
                !.group_count = GroupCount(col),
                !.included = categories,
                !.samples = <<categories[1], categories[2]>>,
                !.p_value = p,
                !.describe = <<Describe(cat_0), Describe(cat_1)>>,
                !.stats = <<StatsRow(categories[1], cat_0),
                            StatsRow(categories[2], cat_1)>>,
                !.ret = TRUE]
    IN  IF Upheld(p)
        THEN [base EXCEPT
                !.verdict = "upheld",
                !.calls = {"ttest_ind", "describe"},
                !.log = <<"hypothesis", "upheld", "stats_table">>]
        ELSE [base EXCEPT
                !.verdict = "rejected",
                !.calls = {"ttest_ind", "_calc_cohens_d", "describe"},
                !.cohens_d = <<_calc_cohens_d(cat_0, cat_1)>>,
                !.log = <<"hypothesis", "rejected", "effect_size", "stats_table">>]

run_t_test(col) ==
    IF CannotRun(Len(Included(col)))
    THEN {TTestCannotRun(col)}
    ELSE {TTestRan(col, p) :
            p \in ttest_ind(col, SubSeq(Included(col), 1, 2))}

---------------------------------------------------------------------------
\* analysis.py

_exec_t_testEverywhere(i) ==
    [fn |-> "_exec_t_test",
     demographic |-> <<"Race", "IsHispanic", "LimitedEnglishProficiency", "Sex",
                       "Disability", "Language", "TribalAffiliation">>[i]]

\* the i-th call of _run_detailed_analysis
DetailCall(i) ==
    <<[fn |-> "_exec_anova",  demographic |-> "Race"],
      [fn |-> "_exec_t_test", demographic |-> "IsHispanic"],
      [fn |-> "_exec_t_test", demographic |-> "LimitedEnglishProficiency"],
      [fn |-> "_exec_anova",  demographic |-> "Sex"],
      [fn |-> "_exec_anova",  demographic |-> "Disability"],
      [fn |-> "_exec_anova",  demographic |-> "Language"],
      [fn |-> "_exec_anova",  demographic |-> "TribalAffiliation"]>>[i]

NumDetailCalls == 7

Measures == {"Attendance Rate", "Behavior", "Course Performance"}

\* what the Measure control can hold: the three measures, or anything else
MeasureInputs == Measures \cup {"other"}

NoEffect == [called |-> FALSE]

\* no button has been clicked
NoClick ==
    [handler |-> "none", raised |-> "none", caught |-> FALSE,
     db |-> FALSE, used |-> 0, factory |-> "none", log |-> "none"]

Init ==
    /\ pc = "idle"
    /\ next_call = 1
    /\ report = NoReport
    /\ earlier_condition = FALSE
    /\ effect = NoEffect
    /\ adapter = 0
    /\ prepares = <<>>
    /\ click = NoClick

\* run_analysis up to the call of _run_detailed_analysis: the data set is
\* loaded, then the measure is mapped to its column
LoadAndMapMeasure ==
    /\ \E loaded \in BOOLEAN, measure \in MeasureInputs :
          pc' = IF ~loaded THEN "load_failed"
                ELSE IF measure \notin Measures THEN "invalid_measure"
                ELSE "detail"
    /\ next_call' = 1
    /\ report' = NoReport
    /\ earlier_condition' = FALSE
    /\ UNCHANGED effect

\* _run_detailed_analysis is between two of its calls, or inside one
Running == pc \in {"detail", "call"}

\* run_analysis called with an adapter of the caller's
RunAnalysis ==
    /\ ~Running
    /\ LoadAndMapMeasure
    /\ UNCHANGED ui_vars

\* every report run_anova can end with, over the columns of the model
AnovaOutcomes == UNION {run_anova(col) : col \in Columns}

\* every report run_t_test can end with, over the columns of the model
TTestOutcomes == UNION {run_t_test(col) : col \in Columns}

AdvanceUnlessFailed ==
    /\ next_call' = next_call + 1
    /\ pc' = IF next_call = NumDetailCalls \/ ~report'.ret THEN "done" ELSE "detail"

\* the call returns and _run_detailed_analysis goes on to its next statement
Advance ==
    /\ next_call' = next_call + 1
    /\ pc' = IF next_call = NumDetailCalls THEN "done" ELSE "detail"

\* the effect sizes of a report
EffectSizes(r) ==
    {r.rows[k].effect_size : k \in DOMAIN r.rows} \cup Range(r.cohens_d)

\* the call behind report r could not run its test, or an effect size of it
\* was computed over a zero pooled standard deviation
LocalCondition(r) ==
    /\ r.engine # "none"
    /\ \/ ~r.ret
       \/ \E e \in EffectSizes(r) : e.d.k # "num"

\* history of the request: the report about to be replaced had a condition
NoteCondition ==
    earlier_condition' = (earlier_condition \/ LocalCondition(report))

\* _run_detailed_analysis enters its next call, which has displayed nothing yet
EnterCall ==
    /\ pc = "detail"
    /\ pc' = "call"
    /\ report' = NoReport
    /\ NoteCondition
    /\ UNCHANGED <<next_call, effect, ui_vars>>

\* _exec_anova: run_anova, then the box plots when it returned True
ExecAnova ==
    /\ pc = "call"
    /\ DetailCall(next_call).fn = "_exec_anova"
    /\ \E r \in AnovaOutcomes :
          report' = [r EXCEPT !.demographic = DetailCall(next_call).demographic,
                              !.box_plot = r.ret]
    /\ Advance
    /\ UNCHANGED <<earlier_condition, effect, ui_vars>>

\* _exec_t_test: run_t_test, then the box plots when it returned True
ExecTTest ==
    /\ pc = "call"
    /\ DetailCall(next_call).fn = "_exec_t_test"
    /\ \E r \in TTestOutcomes :
          report' = [r EXCEPT !.demographic = DetailCall(next_call).demographic,
                              !.box_plot = r.ret]
    /\ Advance
    /\ UNCHANGED <<earlier_condition, effect, ui_vars>>

Next == RunAnalysis \/ EnterCall \/ ExecAnova \/ ExecTTest

Spec == Init /\ [][Next]_vars

---------------------------------------------------------------------------
\* _calc_cohens_d called on its own, on every pair of bounded samples

SampleSizes == 2 .. MaxSampleSize

SampleMeans == {0, 1, 4, 6}

\* variances 1, 4, 25, 10000 and 22500 are the standard deviations 1, 2,
\* 5, 100 and 150
SampleVariances == {0, 1, 4, 25, 10000, 22500}

Samples == [n : SampleSizes, mean : SampleMeans, var : SampleVariances]

InitCohen ==
    /\ pc = "cohen"
    /\ next_call = 1
    /\ report = NoReport
    /\ earlier_condition = FALSE
    /\ effect \in {[called |-> FALSE, sample_1 |-> g1, sample_2 |-> g2] :
                     g1 \in Samples, g2 \in Samples}
    /\ adapter = 0
    /\ prepares = <<>>
    /\ click = NoClick

CalcCohensD ==
    /\ pc = "cohen"
    /\ effect' = [called |-> TRUE,
                  sample_1 |-> effect.sample_1,
                  sample_2 |-> effect.sample_2,
                  result |-> _calc_cohens_d(effect.sample_1, effect.sample_2)]
    /\ pc' = "cohen_done"
    /\ UNCHANGED <<next_call, report, earlier_condition, ui_vars>>

NextCohen == CalcCohensD

SpecCohen == InitCohen /\ [][NextCohen]_vars

---------------------------------------------------------------------------
\* notebook_ui.py: the Prepare, Run and Cleanup buttons

MaxPrepareClicks == 2

\* what the Port text box can hold: nothing, a number, or other text
PortInputs == {"", "1433", "abc"}

\* int(params.port or "1433")
PortNumber(port) ==
    LET text == IF port = "" THEN "1433" ELSE port
    IN  IF text = "1433"
        THEN [raised |-> "none", value |-> 1433]
        ELSE [raised |-> "ValueError"]

\* params of _get_db_adapter: None, or the connection parameters
NoParams == [given |-> FALSE]

ConnectionParameters ==
    [given : {TRUE}, port : PortInputs, username_blank : BOOLEAN]

_get_db_adapterUnchecked(a, params, fresh) ==
    IF ~params.given
    THEN [raised |-> "none", adapter |-> a, ret |-> a, factory |-> "none"]
    ELSE IF PortNumber(params.port).raised # "none"
    THEN [raised |-> PortNumber(params.port).raised,
          adapter |-> a, ret |-> 0, factory |-> "none"]
    ELSE [raised |-> "none", adapter |-> fresh, ret |-> fresh,
          factory |-> IF params.username_blank
                      THEN "create_mssql_adapter_with_integrated_security"
                      ELSE "create_mssql_adapter"]

\* _get_db_adapter with the global at a: the exception raised, the global
\* afterwards and the adapter returned; fresh is the adapter a factory makes
_get_db_adapter(a, params, fresh) ==
    IF ~params.given
    THEN IF a = 0
         THEN [raised |-> "RuntimeError", adapter |-> a, ret |-> 0,
               factory |-> "none"]
         ELSE [raised |-> "none", adapter |-> a, ret |-> a, factory |-> "none"]
    ELSE IF PortNumber(params.port).raised # "none"
    THEN [raised |-> PortNumber(params.port).raised,
          adapter |-> a, ret |-> 0, factory |-> "none"]
    ELSE [raised |-> "none", adapter |-> fresh, ret |-> fresh,
          factory |-> IF params.username_blank
                      THEN "create_mssql_adapter_with_integrated_security"
                      ELSE "create_mssql_adapter"]

\* __on_prepare_click; a handler starts only when no other is running
PrepareClick ==
    /\ ~Running
    /\ Len(prepares) < MaxPrepareClicks
    /\ \E params \in ConnectionParameters, install \in BOOLEAN,
          script_ok \in BOOLEAN :
          LET g == _get_db_adapter(adapter, params, Len(prepares) + 1)
          IN  /\ adapter' = g.adapter
              /\ prepares' = Append(prepares, g.raised = "none")
              /\ click' =
                    IF g.raised # "none"
                    THEN [NoClick EXCEPT !.handler = "prepare",
                                         !.raised = g.raised]
                    ELSE IF ~install
                    THEN [NoClick EXCEPT !.handler = "prepare",
                                         !.factory = g.factory,
                                         !.log = "ready"]
                    ELSE IF script_ok
                    THEN [NoClick EXCEPT !.handler = "prepare",
                                         !.factory = g.factory,
                                         !.db = TRUE,
                                         !.used = g.ret,
                                         !.log = "ready"]
                    ELSE [NoClick EXCEPT !.handler = "prepare",
                                         !.factory = g.factory,
                                         !.raised = "Exception",
                                         !.caught = TRUE,
                                         !.db = TRUE,
                                         !.used = g.ret,
                                         !.log = "error"]
    /\ UNCHANGED <<pc, next_call, report, earlier_condition, effect>>

\* __on_run_click: _get_db_adapter() is evaluated before run_analysis is
\* entered, outside any try
RunClick ==
    /\ ~Running
    /\ LET g == _get_db_adapter(adapter, NoParams, 0)
       IN  IF g.raised # "none"
           THEN /\ click' = [NoClick EXCEPT !.handler = "run",
                                            !.raised = g.raised]
                /\ UNCHANGED <<pc, next_call, report, earlier_condition, effect>>
           ELSE /\ click' = [NoClick EXCEPT !.handler = "run",
                                            !.db = TRUE,
                                            !.used = g.ret]
                /\ LoadAndMapMeasure
    /\ UNCHANGED <<adapter, prepares>>

\* __on_cleanup_click: _get_db_adapter() and cleanup_database inside the try
CleanupClick ==
    /\ ~Running
    /\ \E script_ok \in BOOLEAN :
          LET g == _get_db_adapter(adapter, NoParams, 0)
          IN  click' =
                 IF g.raised # "none"
                 THEN [NoClick EXCEPT !.handler = "cleanup",
                                      !.raised = g.raised,
                                      !.caught = TRUE,
                                      !.log = "error"]
                 ELSE IF script_ok
                 THEN [NoClick EXCEPT !.handler = "cleanup",
                                      !.db = TRUE,
                                      !.used = g.ret,
                                      !.log = "clean_complete"]
                 ELSE [NoClick EXCEPT !.handler = "cleanup",
                                      !.raised = "Exception",
                                      !.caught = TRUE,
                                      !.db = TRUE,
                                      !.used = g.ret,
                                      !.log = "error"]
    /\ UNCHANGED <<pc, next_call, report, earlier_condition, effect,
                   adapter, prepares>>

NextUI ==
    PrepareClick \/ RunClick \/ CleanupClick \/ EnterCall \/ ExecAnova \/ ExecTTest

SpecUI == Init /\ [][NextUI]_vars

---------------------------------------------------------------------------
\* Properties

\* a call of run_anova or run_t_test has been reported
Reported == report.engine # "none"

\* the labels of the grouped frame of the reported call
ReportKeys == {l \in Labels : report.group_count[l] > 0}

\* the labels with more than 30 non-missing outcomes
Eligible == {l \in Labels : report.group_count[l] > 30}

\* C1 (as claimed): the engine that runs is chosen by the number of eligible
\* subgroups: run_t_test with exactly 2, run_anova with 3 or more.
C1_EngineByEligibleCount ==
    Reported =>
        /\ Cardinality(Eligible) = 2 => report.engine = "run_t_test"
        /\ Cardinality(Eligible) >= 3 => report.engine = "run_anova"

\* C1 (amended): the engine is fixed by the demographic, whatever the number
\* of eligible subgroups: run_t_test for IsHispanic and
\* LimitedEnglishProficiency, run_anova for the five other demographics.
C1_EngineByDemographic ==
    Reported =>
        report.engine =
            IF report.demographic \in {"IsHispanic", "LimitedEnglishProficiency"}
            THEN "run_t_test"
            ELSE "run_anova"

\* run_anova ran its test on exactly 2 eligible subgroups
C1_Witness ==
    /\ report.engine = "run_anova"
    /\ report.demographic = "Sex"
    /\ Cardinality(Eligible) = 2
    /\ report.ret

\* the labels that appear in the post-hoc table
RowLabels ==
    {report.rows[k].label1 : k \in DOMAIN report.rows}
    \cup {report.rows[k].label2 : k \in DOMAIN report.rows}

\* the labels that appear in the descriptive-statistics table
StatsLabels == {report.stats[k].Label : k \in DOMAIN report.stats}

C3_CannotRunComputesNothing ==
    (Reported /\ Cardinality(Eligible) < 2) =>
        /\ report.log = <<"cannot_run">>
        /\ report.ret = FALSE
        /\ report.calls = {}
        /\ report.p_value = NoP
        /\ report.verdict = "none"
        /\ report.rows = <<>>
        /\ report.cohens_d = <<>>
        /\ report.stats = <<>>

\* run_anova was given a column whose every subgroup is at the threshold
C3_Witness ==
    /\ report.engine = "run_anova"
    /\ ReportKeys = Labels
    /\ \A l \in Labels : report.group_count[l] = 30
    /\ report.ret = FALSE

\* C4 (as claimed): in both engines the null hypothesis is rejected exactly
\* when p <= 0.05 and upheld in every other case.
C4_RejectedIffPAtMostAlpha ==
    (Reported /\ report.ret) =>
        /\ report.verdict = "rejected" <=> FloatLE(report.p_value, Num(Alpha))
        /\ report.verdict = "upheld" <=> ~FloatLE(report.p_value, Num(Alpha))

\* C5 (as claimed): a run_t_test whose p-value is exactly 0.05 upholds the
\* null hypothesis and computes no effect size.
C5_AlphaIsNotSignificant ==
    (report.engine = "run_t_test" /\ report.p_value = Num(Alpha)) =>
        /\ report.verdict = "upheld"
        /\ report.cohens_d = <<>>

\* C5 (amended): a run_t_test whose p-value is exactly 0.05 rejects the null
\* hypothesis and computes the effect size of the two compared samples.
C5_AlphaIsSignificant ==
    (report.engine = "run_t_test" /\ report.p_value = Num(Alpha)) =>
        /\ report.verdict = "rejected"
        /\ Len(report.cohens_d) = 1
        /\ "_calc_cohens_d" \in report.calls

\* run_t_test got the p-value 0.05
C5_Witness ==
    /\ report.engine = "run_t_test"
    /\ report.ret
    /\ report.p_value = Num(Alpha)

\* C6 (as claimed): whenever f_oneway yields a NaN p-value, run_anova falls
\* back to kruskal on the same samples and takes the verdict from its
\* p-value.
C6_FallbackOnNaN ==
    (report.engine = "run_anova" /\ report.ret /\ IsNaN(report.f_p)) =>
        "kruskal" \in report.calls

\* the effect size of the direct call, and its name
CalledD == effect.result.d

CalledLabel == effect.result.effect_size

\* C7 (as claimed): for every effect size d <= 0.01, d = 0 and d = 0.01
\* included, _calc_cohens_d returns the label "Very small".
C7_VerySmallAtMost001 ==
    (effect.called /\ DLE(CalledD, 1)) => CalledLabel = "Very small"

\* C8: for every effect size d > 0.01 the label is the step function with
\* inclusive upper bounds: (0.01, 0.2] "Small", (0.2, 0.5] "Medium",
\* (0.5, 0.8] "Large", (0.8, 1.2] "Very large", above 1.2 "Huge".
C8_StepFunctionAbove001 ==
    effect.called =>
        /\ (DGT(CalledD, 1) /\ DLE(CalledD, 20)) => CalledLabel = "Small"
        /\ (DGT(CalledD, 20) /\ DLE(CalledD, 50)) => CalledLabel = "Medium"
        /\ (DGT(CalledD, 50) /\ DLE(CalledD, 80)) => CalledLabel = "Large"
        /\ (DGT(CalledD, 80) /\ DLE(CalledD, 120)) => CalledLabel = "Very large"
        /\ DGT(CalledD, 120) => CalledLabel = "Huge"

\* _calc_cohens_d returned for an effect size of exactly 1.2
C8_Witness ==
    /\ effect.called
    /\ CalledD.k = "num"
    /\ CalledD.num * 10000 = 120 * 120 * CalledD.den
    /\ CalledLabel = "Very large"

\* C9 (as claimed): when the pooled standard deviation is zero,
\* _calc_cohens_d signals an error: it returns neither an infinite or
\* undefined d nor a label.
C9_ZeroPooledStdRaises ==
    (effect.called /\ PooledSS(effect.sample_1, effect.sample_2) = 0) =>
        effect.result.raised

\* the pairs (labels[i], labels[j]), i < j, of the eligible labels
UnorderedPairs ==
    {<<report.included[pr[1]], report.included[pr[2]]>> :
        pr \in {q \in (DOMAIN report.included) \X (DOMAIN report.included) :
                    q[1] < q[2]}}

\* C10: when run_anova rejects the null hypothesis with n eligible labels,
\* the post-hoc table holds exactly one row per unordered pair of eligible
\* labels, n(n-1)/2 rows: no row pairs a label with itself and no pair
\* appears together with its mirror.
C10_OneRowPerUnorderedPair ==
    (report.engine = "run_anova" /\ report.verdict = "rejected") =>
        LET n == Len(report.included)
            rows == report.rows
        IN  /\ 2 * Len(rows) = n * (n - 1)
            /\ {<<rows[k].label1, rows[k].label2>> : k \in DOMAIN rows}
                   = UnorderedPairs
            /\ \A k \in DOMAIN rows : rows[k].label1 # rows[k].label2
            /\ \A k, m \in DOMAIN rows :
                  ~(/\ rows[k].label1 = rows[m].label2
                    /\ rows[k].label2 = rows[m].label1)

\* run_anova rejected the null hypothesis over three eligible labels
C10_Witness ==
    /\ report.engine = "run_anova"
    /\ report.verdict = "rejected"
    /\ Len(report.included) = 3
    /\ Len(report.rows) = 3

\* C11 (as claimed): the post-hoc table of run_anova is sorted ascending by
\* the numeric p-value of its rows: of two consecutive rows the earlier
\* p-value is less than or equal to the later one (stated here for the rows
\* whose p-values are numbers).
C11_SortedByNumericP ==
    report.engine = "run_anova" =>
        \A k \in DOMAIN report.rows :
            (/\ k + 1 \in DOMAIN report.rows
             /\ ~IsNaN(report.rows[k].pvalue)
             /\ ~IsNaN(report.rows[k + 1].pvalue)) =>
                FloatLE(report.rows[k].pvalue, report.rows[k + 1].pvalue)

\* C12 (as claimed): whenever run_t_test returns True, with the hypothesis
\* upheld or rejected, it reports one descriptive-statistics row per compared
\* group whose Count, Mean, StD, Min and Max columns hold that group's
\* count, mean, standard deviation, minimum and maximum.
C12_StatsColumnsHoldTheirStatistic ==
    (report.engine = "run_t_test" /\ report.ret) =>
        /\ Len(report.stats) = 2
        /\ \A k \in DOMAIN report.stats :
              /\ report.stats[k].Label = report.samples[k]
              /\ report.stats[k].Count = num_to_string(FromInt(report.describe[k].count))
              /\ report.stats[k].Mean = num_to_string(FromInt(report.describe[k].mean))
              /\ report.stats[k].StD = num_to_string(FromInt(report.describe[k].std))
              /\ report.stats[k].Min = num_to_string(FromInt(report.describe[k].min))
              /\ report.stats[k].Max = num_to_string(FromInt(report.describe[k].max))

\* C13: a condition local to one category (fewer than 2 eligible labels, or
\* a zero pooled standard deviation in an effect size) is shown in that
\* category's report and does not abort the request: the calls of
\* _run_detailed_analysis go on in order, the next one is due right after the
\* report with the condition, and the request ends only after the seventh.
C13_LocalConditionDoesNotAbort ==
    /\ pc = "detail" =>
          /\ next_call \in 1 .. NumDetailCalls
          /\ ENABLED EnterCall
          /\ next_call > 1 =>
                report.demographic = DetailCall(next_call - 1).demographic
    /\ pc = "call" =>
          /\ next_call \in 1 .. NumDetailCalls
          /\ ENABLED (ExecAnova \/ ExecTTest)
    /\ pc = "done" =>
          /\ next_call = NumDetailCalls + 1
          /\ report.demographic = DetailCall(NumDetailCalls).demographic
    /\ (LocalCondition(report) \/ earlier_condition) =>
          pc \in {"detail", "call", "done"}
    /\ (Reported /\ ~report.ret) => report.log = <<"cannot_run">>

\* all seven categories were analysed, the last one with its test run, after
\* an earlier category of the request had a local condition
C13_Witness ==
    /\ pc = "done"
    /\ earlier_condition
    /\ report.demographic = "TribalAffiliation"
    /\ report.ret
    /\ ~LocalCondition(report)

\* the report shows that the Tukey comparison or _calc_cohens_d was invoked
PostHocInvoked(r) ==
    \/ r.calls \cap {"tukey_hsd", "_calc_cohens_d"} # {}
    \/ r.rows # <<>>
    \/ r.cohens_d # <<>>
    \/ Range(r.log) \cap {"tukey_table", "effect_size"} # {}

\* every occurrence of b in log comes after an occurrence of a
Precedes(log, a, b) ==
    \A k \in DOMAIN log :
        log[k] = b => \E h \in 1 .. (k - 1) : log[h] = a

\* C14: _calc_cohens_d and the Tukey post-hoc comparison are invoked only in
\* a run whose test rejected the null hypothesis, and only after the
\* rejection; when the hypothesis is upheld or the test is not executed,
\* neither is invoked.
C14_PostHocOnlyAfterRejection ==
    Reported =>
        /\ PostHocInvoked(report) =>
              /\ report.verdict = "rejected"
              /\ ~Upheld(report.p_value)
              /\ Precedes(report.log, "rejected", "tukey_table")
              /\ Precedes(report.log, "rejected", "effect_size")
        /\ (report.verdict = "upheld" \/ ~report.ret) => ~PostHocInvoked(report)
        /\ report.ret => report.verdict \in {"upheld", "rejected"}

\* a rejected ANOVA whose post-hoc table has rows with effect sizes
C14_Witness ==
    /\ report.engine = "run_anova"
    /\ report.verdict = "rejected"
    /\ "tukey_hsd" \in report.calls
    /\ "_calc_cohens_d" \in report.calls
    /\ report.rows # <<>>

\* C15: with more than two labels past the size filter, run_t_test compares
\* and describes only the first two of them in enumeration order, logs no
\* error or warning about the others, and returns True.
C15_FirstTwoEligibleOnly ==
    (report.engine = "run_t_test" /\ Len(report.included) > 2) =>
        /\ report.ret
        /\ report.samples = SubSeq(report.included, 1, 2)
        /\ Len(report.stats) = 2
        /\ Len(report.describe) = 2
        /\ \A k \in 1 .. 2 :
              /\ report.stats[k].Label = report.included[k]
              /\ report.describe[k].count = report.group_count[report.included[k]]
        /\ ~report.excluded_logged
        /\ Range(report.log) \cap {"cannot_run", "excluded"} = {}
        /\ Range(report.log) \subseteq
              {"hypothesis", "upheld", "rejected", "effect_size", "stats_table"}

\* a two-group comparison on a column with three eligible labels
C15_Witness ==
    /\ report.engine = "run_t_test"
    /\ Len(report.included) = 3
    /\ report.ret
    /\ Len(report.stats) = 2

\* the most recent click was on Run or Cleanup
RunOrCleanup == click.handler \in {"run", "cleanup"}

\* the Prepare clicks that created an adapter
Creating == {k \in DOMAIN prepares : prepares[k]}

\* the last Prepare click that created an adapter
LastCreating == CHOOSE k \in Creating : \A h \in Creating : h <= k

\* a Run or Cleanup click reaches the database only after a Prepare click
\* created the adapter; before that _get_db_adapter() raises RuntimeError,
\* which Cleanup catches and reports and Run lets through
C16_NoAdapterNoDatabase ==
    /\ (RunOrCleanup /\ click.db) => Creating # {}
    /\ (adapter = 0) <=> (Creating = {})
    /\ (RunOrCleanup /\ Creating = {}) =>
          /\ click.raised = "RuntimeError"
          /\ ~click.db
          /\ click.handler = "cleanup" => (click.caught /\ click.log = "error")
          /\ click.handler = "run" => (~click.caught /\ click.log = "none")
    /\ (RunOrCleanup /\ Creating # {}) =>
          (click.db /\ click.raised # "RuntimeError")

\* C16 (as claimed): for every sequence of Prepare, Run and Cleanup clicks, a
\* Run or Cleanup click never reaches the database unless an earlier Prepare
\* click created the adapter; before that _get_db_adapter() raises (caught
\* and reported by Cleanup, uncaught in Run); after that Run and Cleanup
\* always use the adapter created by the most recent Prepare click.
C16_UsesMostRecentPrepare ==
    /\ C16_NoAdapterNoDatabase
    /\ (RunOrCleanup /\ Creating # {}) => click.used = Len(prepares)

\* C16 (amended): as claimed, except that after the adapter exists Run and
\* Cleanup use the adapter of the most recent Prepare click that created
\* one: a Prepare click that raises before creating an adapter leaves the
\* previous adapter in place.
C16_UsesLastCreatedAdapter ==
    /\ C16_NoAdapterNoDatabase
    /\ Creating # {} => adapter = LastCreating
    /\ (RunOrCleanup /\ Creating # {}) => click.used = LastCreating

\* Run analysed all seven categories through the adapter of the first Prepare
\* click, after a second Prepare click raised on its port
C16_Witness ==
    /\ click.handler = "run"
    /\ prepares = <<TRUE, FALSE>>
    /\ click.db
    /\ click.used = 1
    /\ pc = "done"

====
